---- MODULE Spec2Model ----
(***************************************************************************)
(* Model of FW_NL_GuidanceSystem (src/FixedWing_NAPS.py): the fixed-wing   *)
(* nonlinear guidance engine with its idealised equations of motion.       *)
(*                                                                         *)
(* Numbers.  The program computes in IEEE doubles; the model computes in   *)
(* integers on a fixed grid.  Every quotient is rounded to the nearest     *)
(* grid point (fdiv), angles are whole degrees, trigonometric values are   *)
(* in thousandths, the percentages named below are hundredths.  The float  *)
(* not-a-number np.nan is the value NaN, which arithmetic propagates.      *)
(* solve_ivp (RK45) is modelled by the exact solution of the ODE it is     *)
(* given: y + f*dt for a right-hand side that ignores y, and the           *)
(* exponential approach for the two first-order lags.  An integration the  *)
(* solver gives up on (OdeResult.status = -1) returns normally with the    *)
(* points it accepted; failed names the integration of the last step that  *)
(* ended so, "none" when every integration reached t + dt.                 *)
(***************************************************************************)
EXTENDS Integers, Sequences, FiniteSets, TLC

VARIABLES self, commandSet, failed

vars == <<self, commandSet, failed>>

(* ------------------------------ bounds -------------------------------- *)

\* stepTime calls explored per run
MaxSteps == 2

\* the flight envelope explored: speeds in 1..MaxSpeed, masses in 1..MaxMass,
\* flight path and heading angles within MaxAngle degrees, thrust and lift
\* within MaxForce
MaxSpeed == 40

MaxMass == 100

MaxAngle == 360

MaxForce == 1000

(* ------------------------- numeric helpers ---------------------------- *)

\* np.nan
NaN == -999999

IsNaN(x) == x = NaN

Abs(x) == IF x < 0 THEN -x ELSE x

Sign(x) == IF x > 0 THEN 1 ELSE IF x < 0 THEN -1 ELSE 0

Last(s) == s[Len(s)]

\* the value of a one-element set; statements in sequence are written
\* Only({ second(x) : x \in {first} }), which evaluates each statement once
Only(S) == CHOOSE x \in S : TRUE

\* a / b rounded to the nearest grid point
fdiv(a, b) ==
    LET n == IF b < 0 THEN -a ELSE a
        d == IF b < 0 THEN -b ELSE b
    IN  (2 * n + d) \div (2 * d)

\* 1000 * sin(x degrees), 0 <= x <= 180 (Bhaskara's rational approximation,
\* exact at 0, 30, 90, 150 and 180 degrees)
SinHalfTurn(x) == fdiv(4000 * x * (180 - x), 40500 - x * (180 - x))

\* 1000 * np.sin(x), x in degrees
Sin(x) ==
    LET r == x % 360
    IN  IF r <= 180 THEN SinHalfTurn(r) ELSE -SinHalfTurn(r - 180)

\* 1000 * np.cos(x), x in degrees
Cos(x) == Sin(x + 90)

\* a - b in floats: not-a-number if either operand is
Sub(a, b) == IF IsNaN(a) \/ IsNaN(b) THEN NaN ELSE a - b

(* ------------------ collaborators outside this file ------------------- *)

\* utils.const_gravity
const_gravity == 2

\* utils.const_density
const_density == 1

\* utils.Re_bar, mean radius of the (small) planet
Re_bar == 1000

\* utils.wind_vector: the airspeed magnitude for an inertial speed, flight
\* path angle and heading
wind_vector(v, gamma, sigma) ==
    IF IsNaN(v) \/ IsNaN(gamma) \/ IsNaN(sigma) THEN NaN ELSE Abs(v)

(* --------------------------- input spaces ----------------------------- *)

\* FixedWingVehicle parameters.  Kf in hundredths; wing_eff in tenths; C_Do,
\* C_Lalpha (per degree) in thousandths; omega_T, omega_L in units of ln 2 per second;
\* mu_max, alpha_o in degrees.
Vehicles ==
    { [T_max |-> 30, K_Lmax |-> 1, mu_max |-> 30, Kf |-> 5,
       omega_T |-> 3, omega_L |-> 4, C_Do |-> 50, C_Lalpha |-> 92,
       alpha_o |-> 0, wing_area |-> 2, aspect_ratio |-> 10, wing_eff |-> 6] }

\* PI guidance transfer-function coefficients
TF_constantsSet ==
    { [K_Tp |-> 1, K_Ti |-> 1, K_Lp |-> 2, K_Li |-> 1, K_mu_p |-> 1],
      [K_Tp |-> 2, K_Ti |-> 0, K_Lp |-> 1, K_Li |-> 0, K_mu_p |-> -1] }

InitialConditionsSet ==
    { [v_BN_W |-> 10, h |-> 0, gamma |-> 0, sigma |-> 0,
       lat |-> 33, lon |-> -87, weight |-> 20] }

\* constructor arguments time and dt
InitialTime == 0

DefaultDt == 1

\* dt arguments of stepTime
DtValues == {-1, 2}

\* velocity, flight_path_angle and heading arguments of setCommandTrajectory;
\* the current state is always among the values tried
Velocities == {6, 14, NaN}

\* <<flight_path_angle, heading>>
Attitudes == {<<30, -20>>}

(* ------------------------- solve_ivp (RK45) --------------------------- *)

\* solve_ivp over [t, t + dt] from y0 for a right-hand side that does not read
\* the integration variable: the derivative is the constant num / den
solve_ivp(y0, num, den, dt) == y0 + fdiv(num * dt, den)

\* solve_ivp over [t, t + dt] from y0 for dy/dt = -omega*y + omega*yc, whose
\* right-hand side reads the integration variable (omega in units of ln 2)
solve_ivp_lag(y0, yc, omega, dt) ==
    IF dt >= 0
    THEN yc + fdiv(y0 - yc, 2 ^ (omega * dt))
    ELSE yc + (y0 - yc) * 2 ^ (omega * (-dt))

\* the integrations of one step, by the right-hand side handed to solve_ivp
GuidanceIntegrations == {"xT_dot_ode", "T_dot_ode", "xL_dot_ode", "L_dot_ode"}

MotionIntegrations == {"m_dot_ode", "eom_ode", "ecef_ode"}

\* sol.y[i][-1], the last point of the OdeResult of integration ode: the value
\* y at t + dt when the solver succeeds, and the last point it accepted, here
\* the initial value y0, when it gives up (no exception is raised and
\* sol.status is not read)
sol_y(ode, failed_ode, y0, y) == IF ode = failed_ode THEN y0 ELSE y

(* ---------------------- algebraic aerodynamics ------------------------ *)

\* _calculateAlpha
calculateAlpha(s) ==
    fdiv(2 * Last(s.Lift) * 1000,
         const_density * s.Vehicle.wing_area * s.Vehicle.C_Lalpha
             * Last(s.airspeed) ^ 2)
    + s.Vehicle.alpha_o

\* _calculateDrag (pi as 22 / 7)
calculateDrag(s) ==
    fdiv(const_density * s.Vehicle.wing_area * s.Vehicle.C_Do
             * Last(s.airspeed) ^ 2, 2 * 1000)
    + fdiv(2 * Last(s.Lift) ^ 2 * 7 * 10,
           const_density * s.Vehicle.wing_area * 22 * s.Vehicle.aspect_ratio
               * s.Vehicle.wing_eff * Last(s.airspeed) ^ 2)

\* _calculateMu
calculateMu(s) ==
    IF IsNaN(s.command.v_BN_W) \/ IsNaN(s.sigma_err)
    THEN NaN
    ELSE fdiv(s.K_mu_p * s.command.v_BN_W * s.sigma_err, const_gravity)

(* --------------------------- construction ----------------------------- *)

\* userCommand.__init__
userCommand(v_BN_W, gamma, sigma) ==
    [v_BN_W |-> v_BN_W, gamma |-> gamma, sigma |-> sigma,
     v_BN_W_history |-> <<v_BN_W>>, gamma_history |-> <<gamma>>,
     sigma_history |-> <<sigma>>,
     airspeed |-> wind_vector(v_BN_W, gamma, sigma),
     airspeed_history |-> <<wind_vector(v_BN_W, gamma, sigma)>>]

\* mutant of save_history: the velocity and angle histories are not appended
save_history_AirspeedOnly(c) ==
    [c EXCEPT !.airspeed_history = Append(@, c.airspeed)]

\* userCommand.save_history
save_history(c) ==
    [c EXCEPT !.v_BN_W_history = Append(@, c.v_BN_W),
              !.gamma_history = Append(@, c.gamma),
              !.sigma_history = Append(@, c.sigma),
              !.airspeed_history = Append(@, c.airspeed)]

\* FW_NL_GuidanceSystem.__init__
Construct(vehicle, TF_constants, InitialConditions, time, dt) ==
    LET command == userCommand(InitialConditions.v_BN_W,
                               InitialConditions.gamma,
                               InitialConditions.sigma)
        aero == [Vehicle |-> vehicle, Lift |-> <<0>>,
                 airspeed |-> <<wind_vector(InitialConditions.v_BN_W,
                                            InitialConditions.gamma,
                                            InitialConditions.sigma)>>]
        ctl == [K_mu_p |-> TF_constants.K_mu_p, command |-> command,
                sigma_err |-> 0]
    IN  [Vehicle |-> vehicle,
         K_Tp |-> TF_constants.K_Tp, K_Ti |-> TF_constants.K_Ti,
         K_Lp |-> TF_constants.K_Lp, K_Li |-> TF_constants.K_Li,
         K_mu_p |-> TF_constants.K_mu_p,
         dt |-> dt,
         time |-> <<time>>,
         v_BN_W |-> <<InitialConditions.v_BN_W>>,
         h |-> <<InitialConditions.h>>,
         gamma |-> <<InitialConditions.gamma>>,
         sigma |-> <<InitialConditions.sigma>>,
         lat |-> <<InitialConditions.lat>>,
         lon |-> <<InitialConditions.lon>>,
         mass |-> <<fdiv(InitialConditions.weight, const_gravity)>>,
         airspeed |-> aero.airspeed,
         command |-> command,
         V_err |-> 0, xT |-> 0, hdot_err |-> 0, Tc |-> 0, Thrust |-> <<0>>,
         xL |-> 0, Lc |-> 0, Lift |-> <<0>>,
         alpha_c |-> <<0>>, h_c |-> <<0>>, sigma_err |-> 0,
         alpha |-> <<calculateAlpha(aero)>>,
         drag |-> <<calculateDrag(aero)>>,
         mu |-> <<calculateMu(ctl)>>]

(* ----------------------- setCommandTrajectory ------------------------- *)

\* climb-rate error command.v_BN_W*(sin(command.gamma) - sin(gamma[-1]))
hdot_error(v_c, gamma_c, gamma) ==
    IF IsNaN(v_c) \/ IsNaN(gamma_c)
    THEN NaN
    ELSE fdiv(v_c * (Sin(gamma_c) - Sin(gamma)), 1000)

\* mutant of setCommandTrajectory: the errors are taken against the first
\* entries of the histories, not the latest
setCommandTrajectory_FirstEntry(s, velocity, flight_path_angle, heading) ==
    LET command == [s.command EXCEPT
                        !.v_BN_W = velocity,
                        !.gamma = flight_path_angle,
                        !.sigma = heading,
                        !.airspeed = wind_vector(velocity, flight_path_angle,
                                                 heading)]
    IN  [s EXCEPT !.command = command,
                  !.V_err = Sub(command.v_BN_W, s.v_BN_W[1]),
                  !.hdot_err = hdot_error(command.v_BN_W, command.gamma,
                                          s.gamma[1]),
                  !.sigma_err = Sub(command.sigma, s.sigma[1])]

\* mutant of setCommandTrajectory: the new command is recorded at once
setCommandTrajectory_Recording(s, velocity, flight_path_angle, heading) ==
    LET command == [s.command EXCEPT
                        !.v_BN_W = velocity,
                        !.gamma = flight_path_angle,
                        !.sigma = heading,
                        !.airspeed = wind_vector(velocity, flight_path_angle,
                                                 heading)]
    IN  [s EXCEPT !.command = save_history(command),
                  !.V_err = Sub(command.v_BN_W, Last(s.v_BN_W)),
                  !.hdot_err = hdot_error(command.v_BN_W, command.gamma,
                                          Last(s.gamma)),
                  !.sigma_err = Sub(command.sigma, Last(s.sigma))]

\* setCommandTrajectory
setCommandTrajectory(s, velocity, flight_path_angle, heading) ==
    LET command == [s.command EXCEPT
                        !.v_BN_W = velocity,
                        !.gamma = flight_path_angle,
                        !.sigma = heading,
                        !.airspeed = wind_vector(velocity, flight_path_angle,
                                                 heading)]
    IN  [s EXCEPT !.command = command,
                  !.V_err = Sub(command.v_BN_W, Last(s.v_BN_W)),
                  !.hdot_err = hdot_error(command.v_BN_W, command.gamma,
                                          Last(s.gamma)),
                  !.sigma_err = Sub(command.sigma, Last(s.sigma))]

(* -------------------------- guidance loops ---------------------------- *)

\* mutant of Saturate: the saturation is left out
Saturate_Off(x, limit) == x

\* upper saturation: if x > limit: x = limit
Saturate(x, limit) == IF x > limit THEN limit ELSE x

\* mutant of SaturateBank: only the positive side is limited
SaturateBank_OneSided(mu, mu_max) == IF mu > mu_max THEN mu_max ELSE mu

\* if np.abs(mu) > mu_max: mu = np.sign(mu) * mu_max
SaturateBank(mu, mu_max) == IF Abs(mu) > mu_max THEN Sign(mu) * mu_max ELSE mu

\* __xT_dot_ode, reading mass[-1] and V_err
xT_dot_ode(mass, V_err) == mass * V_err

\* __xL_dot_ode, reading mass[-1] and hdot_err
xL_dot_ode(mass, hdot_err) == mass * hdot_err

\* mutant of m_dot_ode: the sign of the fuel flow is lost
m_dot_ode_Gain(Kf, Thrust) == Kf * Thrust

\* __m_dot_ode, reading Thrust[-1] (Kf in hundredths)
m_dot_ode(Kf, Thrust) == -1 * Kf * Thrust

\* L_max = v_BN_W[-1]**2 * K_Lmax
L_maxOf(v_BN_W, K_Lmax) == v_BN_W ^ 2 * K_Lmax

\* velocity error command.v_BN_W - v_BN_W[-1]
V_error(s) == s.command.v_BN_W - Last(s.v_BN_W)

\* heading error command.sigma - sigma[-1]
sigma_error(s) == s.command.sigma - Last(s.sigma)

\* __T_dot_ode(t, T) and __L_dot_ode(t, L) in thousandths: the right-hand
\* sides of the two lags, which read the integration variable (omega in
\* units of ln 2 = 0.693)
T_dot_ode(omega_T, T, Tc) == -1 * omega_T * 693 * T + omega_T * 693 * Tc

L_dot_ode(omega_L, L, Lc) == -1 * omega_L * 693 * L + omega_L * 693 * Lc

\* mutant of thrustGuidanceSystem: the thrust lag is one extrapolation step
\* with the derivative frozen at the last thrust entry
thrustGuidanceSystem_Frozen(s, dt, failed_ode) ==
    LET V_err == V_error(s)
        xT == sol_y("xT_dot_ode", failed_ode, s.xT,
                    solve_ivp(s.xT, xT_dot_ode(Last(s.mass), V_err), 1, dt))
        Tc == Saturate(s.K_Ti * xT + s.K_Tp * Last(s.mass) * V_err,
                       s.Vehicle.T_max)
        T  == sol_y("T_dot_ode", failed_ode, Last(s.Thrust),
                    solve_ivp(Last(s.Thrust),
                              T_dot_ode(s.Vehicle.omega_T, Last(s.Thrust), Tc),
                              1000, dt))
    IN  [s EXCEPT !.V_err = V_err, !.xT = xT, !.Tc = Tc,
                  !.Thrust = Append(@, Saturate(T, s.Vehicle.T_max))]

\* _thrustGuidanceSystem
thrustGuidanceSystem(s, dt, failed_ode) ==
    LET V_err == V_error(s)
        xT == sol_y("xT_dot_ode", failed_ode, s.xT,
                    solve_ivp(s.xT, xT_dot_ode(Last(s.mass), V_err), 1, dt))
        Tc == Saturate(s.K_Ti * xT + s.K_Tp * Last(s.mass) * V_err,
                       s.Vehicle.T_max)
        T  == sol_y("T_dot_ode", failed_ode, Last(s.Thrust),
                    solve_ivp_lag(Last(s.Thrust), Tc, s.Vehicle.omega_T, dt))
    IN  [s EXCEPT !.V_err = V_err, !.xT = xT, !.Tc = Tc,
                  !.Thrust = Append(@, Saturate(T, s.Vehicle.T_max))]

\* _liftGuidanceSystem
liftGuidanceSystem(s, dt, failed_ode) ==
    LET L_max == L_maxOf(Last(s.v_BN_W), s.Vehicle.K_Lmax)
        hdot_err == hdot_error(s.command.v_BN_W, s.command.gamma,
                               Last(s.gamma))
        xL == sol_y("xL_dot_ode", failed_ode, s.xL,
                    solve_ivp(s.xL, xL_dot_ode(Last(s.mass), hdot_err), 1, dt))
        Lc == Saturate(s.K_Li * xL + s.K_Lp * Last(s.mass) * hdot_err, L_max)
        L  == sol_y("L_dot_ode", failed_ode, Last(s.Lift),
                    solve_ivp_lag(Last(s.Lift), Lc, s.Vehicle.omega_L, dt))
        alpha_c == fdiv(2 * Lc * 1000,
                        const_density * s.Vehicle.wing_area
                            * s.Vehicle.C_Lalpha * Last(s.airspeed) ^ 2)
                   + s.Vehicle.alpha_o
        h_c == fdiv(Sin(s.command.gamma) * s.command.v_BN_W
                        * (Last(s.time) + dt), 1000) + s.h[1]
    IN  [s EXCEPT !.hdot_err = hdot_err, !.xL = xL, !.Lc = Lc,
                  !.Lift = Append(@, Saturate(L, L_max)),
                  !.alpha_c = Append(@, alpha_c), !.h_c = Append(@, h_c)]

\* mu = self._calculateMu(), then the saturation
BankCommand(s) == SaturateBank(calculateMu(s), s.Vehicle.mu_max)

\* _headingGuidanceSystem
headingGuidanceSystem(s, dt) ==
    Only({ [e EXCEPT !.mu = Append(@, BankCommand(e))] :
           e \in {[s EXCEPT !.sigma_err = sigma_error(s)]} })

\* np.nan in [command.v_BN_W, command.gamma, command.sigma]
NoCommand(s) == NaN \in {s.command.v_BN_W, s.command.gamma, s.command.sigma}

\* getGuidanceCommands
getGuidanceCommands(s, dt, failed_ode) ==
    IF NoCommand(s)
    THEN s
    ELSE Only({ headingGuidanceSystem(l, dt) :
                l \in { liftGuidanceSystem(t, dt, failed_ode) :
                        t \in {thrustGuidanceSystem(s, dt, failed_ode)} } })

(* ----------------------- equations of motion -------------------------- *)

\* fuel burn: mass.append(solve_ivp(__m_dot_ode, ..., [mass[-1]]))
FuelBurn(s, dt, failed_ode) ==
    [s EXCEPT !.mass = Append(@, sol_y("m_dot_ode", failed_ode, Last(s.mass),
                                  solve_ivp(Last(s.mass),
                                      m_dot_ode(s.Vehicle.Kf, Last(s.Thrust)),
                                      100, dt)))]

\* alpha.append(_calculateAlpha()); drag.append(_calculateDrag())
AeroResponse(s) ==
    [s EXCEPT !.alpha = Append(@, calculateAlpha(s)),
              !.drag = Append(@, calculateDrag(s))]

\* __eom_ode with solve_ivp from [v_BN_W[-1], gamma[-1], sigma[-1]]; the two
\* angular rates are in degrees, 172 / 3 to the radian
MotionResponse(s, dt, failed_ode) ==
    LET m == Last(s.mass)
        v == Last(s.v_BN_W)
        g == Last(s.gamma)
        L == Last(s.Lift)
    IN  [s EXCEPT
            !.v_BN_W = Append(@, sol_y("eom_ode", failed_ode, v,
                solve_ivp(v,
                    (Last(s.Thrust) - Last(s.drag)) * 1000
                        - const_gravity * Sin(g) * m,
                    m * 1000, dt))),
            !.gamma = Append(@, sol_y("eom_ode", failed_ode, g,
                solve_ivp(g,
                    172 * (L * Cos(Last(s.mu)) - const_gravity * Cos(g) * m),
                    3 * v * m * 1000, dt))),
            !.sigma = Append(@, sol_y("eom_ode", failed_ode, Last(s.sigma),
                solve_ivp(Last(s.sigma),
                    172 * L * Sin(Last(s.mu)),
                    3 * v * Cos(g) * m, dt)))]

\* airspeed.append(utils.wind_vector(v_BN_W[-1], gamma[-1], sigma[-1]))
AirspeedResponse(s) ==
    [s EXCEPT !.airspeed = Append(@, wind_vector(Last(s.v_BN_W), Last(s.gamma),
                                                 Last(s.sigma)))]

\* __ecef_ode with solve_ivp from [lat[-1], lon[-1], h[-1]]; latitude and
\* longitude in degrees
EcefResponse(s, dt, failed_ode) ==
    LET v == Last(s.v_BN_W)
        north == fdiv(v * Cos(Last(s.gamma)) * Cos(Last(s.sigma)), 1000)
        east == fdiv(v * Cos(Last(s.gamma)) * Sin(Last(s.sigma)), 1000)
        r == Re_bar + Last(s.h)
    IN  [s EXCEPT
            !.lat = Append(@, sol_y("ecef_ode", failed_ode, Last(s.lat),
                solve_ivp(Last(s.lat), 172 * north, 3 * r * 1000, dt))),
            !.lon = Append(@, sol_y("ecef_ode", failed_ode, Last(s.lon),
                solve_ivp(Last(s.lon), 172 * east,
                          3 * r * Cos(Last(s.lat)), dt))),
            !.h = Append(@, sol_y("ecef_ode", failed_ode, Last(s.h),
                solve_ivp(Last(s.h), v * Sin(Last(s.gamma)), 1000, dt)))]

\* getEquationsOfMotion_Ideal
getEquationsOfMotion_Ideal(s, dt, failed_ode) ==
    Only({ EcefResponse(d, dt, failed_ode) :
           d \in { AirspeedResponse(c) :
                   c \in { MotionResponse(b, dt, failed_ode) :
                           b \in { AeroResponse(a) :
                                   a \in {FuelBurn(s, dt, failed_ode)} } } } })

(* ------------------------------ stepTime ------------------------------ *)

\* command.save_history(); time.append(time[-1] + dt)
Commit(s, dt) ==
    [s EXCEPT !.command = save_history(s.command),
              !.time = Append(@, Last(s.time) + dt)]

\* mutant of stepTime: the equations of motion are integrated before the
\* guidance laws are evaluated
stepTime_MotionFirst(s, dt, failed_ode) ==
    Only({ Commit(g, dt) :
           g \in { getGuidanceCommands(e, dt, failed_ode) :
                   e \in {getEquationsOfMotion_Ideal(s, dt, failed_ode)} } })

\* stepTime, dt given; failed_ode names the integration the solver gives up
\* on, "none" when there is none
stepTime(s, dt, failed_ode) ==
    Only({ Commit(e, dt) :
           e \in { getEquationsOfMotion_Ideal(g, dt, failed_ode) :
                   g \in {getGuidanceCommands(s, dt, failed_ode)} } })

\* the latest state is inside the flight envelope explored
InEnvelope(s) ==
    /\ Last(s.v_BN_W) \in 1..MaxSpeed
    /\ Last(s.airspeed) # 0
    /\ Last(s.mass) \in 1..MaxMass
    /\ Abs(Last(s.gamma)) <= MaxAngle
    /\ Abs(Last(s.sigma)) <= MaxAngle
    /\ Abs(Last(s.Thrust)) <= MaxForce
    /\ Abs(Last(s.Lift)) <= MaxForce
    /\ Cos(Last(s.gamma)) # 0
    /\ Cos(Last(s.lat)) # 0
    /\ Re_bar + Last(s.h) # 0

\* The step stays inside the flight envelope explored, where every quotient
\* has a nonzero divisor and every number is finite
Finite(s, dt, failed_ode) ==
    /\ InEnvelope(s)
    /\ \A g \in {getGuidanceCommands(s, dt, failed_ode)} :
         /\ Abs(Last(g.Thrust)) <= MaxForce
         /\ Abs(Last(g.Lift)) <= MaxForce
         /\ \A a \in {FuelBurn(g, dt, failed_ode)} :
              /\ Last(a.mass) \in 1..MaxMass
              /\ \A m \in {AirspeedResponse(
                               MotionResponse(AeroResponse(a), dt,
                                              failed_ode))} :
                   InEnvelope(m)

(* ------------------------------ actions ------------------------------- *)

Init ==
    /\ \E vehicle \in Vehicles, TF_constants \in TF_constantsSet,
          InitialConditions \in InitialConditionsSet :
            self = Construct(vehicle, TF_constants, InitialConditions,
                             InitialTime, DefaultDt)
    /\ commandSet = FALSE
    /\ failed = "none"

\* a call of setCommandTrajectory(velocity, flight_path_angle, heading)
SetCommandTrajectory ==
    \E velocity \in Velocities \cup {Last(self.v_BN_W)},
       attitude \in Attitudes \cup {<<Last(self.gamma), Last(self.sigma)>>} :
        /\ self' = setCommandTrajectory(self, velocity, attitude[1],
                                        attitude[2])
        /\ commandSet' = TRUE
        /\ failed' = "none"

\* a call of stepTime(dt)
StepTime ==
    \E dt \in DtValues :
        /\ Len(self.time) <= MaxSteps
        /\ Finite(self, dt, "none")
        /\ self' = stepTime(self, dt, "none")
        /\ failed' = "none"
        /\ UNCHANGED commandSet

\* a call of stepTime(): dt is None, so dt = self.dt
StepTimeDefault ==
    /\ Len(self.time) <= MaxSteps
    /\ Finite(self, self.dt, "none")
    /\ self' = stepTime(self, self.dt, "none")
    /\ failed' = "none"
    /\ UNCHANGED commandSet

Next == SetCommandTrajectory \/ StepTime \/ StepTimeDefault

\* the engine with an integrator that reaches t + dt in every integration
Spec == Init /\ [][Next]_vars

\* a call of stepTime() during which solve_ivp gives up on one integration
\* (the guidance integrations run only when a command is set)
StepTimeFailedIntegration ==
    \E ode \in GuidanceIntegrations \cup MotionIntegrations :
        /\ Len(self.time) <= MaxSteps
        /\ ode \in GuidanceIntegrations => ~NoCommand(self)
        /\ Finite(self, self.dt, ode)
        /\ self' = stepTime(self, self.dt, ode)
        /\ failed' = ode
        /\ UNCHANGED commandSet

NextIvp == Next \/ StepTimeFailedIntegration

\* the engine with an integrator that may give up
SpecIvp == Init /\ [][NextIvp]_vars

(* ------------------------------ claims -------------------------------- *)

\* the time-indexed histories of the engine
TimeIndexed(s) ==
    <<s.time, s.mass, s.v_BN_W, s.gamma, s.sigma, s.lat, s.lon, s.h,
      s.airspeed, s.alpha, s.drag, s.mu, s.Thrust, s.Lift>>

\* the transition is a stepTime call (only stepTime moves the clock)
IsStep == Len(self'.time) = Len(self.time) + 1

\* the transition is a setCommandTrajectory call
IsSetCommand == Len(self'.time) = Len(self.time)

\* the guidance loops ran in the transition
GuidanceRan == Len(self'.Thrust) > Len(self.Thrust)

\* C1: after any sequence of setCommandTrajectory and stepTime calls all
\* time-indexed histories have the same length, the number of stepTime calls
\* plus one (time grows by one entry per stepTime call).
C1_HistoriesSameLength ==
    \A i \in 1..Len(TimeIndexed(self)) :
        Len(TimeIndexed(self)[i]) = Len(self.time)

\* C2: every Thrust entry is <= T_max and every bank angle entry is within
\* mu_max; a thrust command or bank angle beyond its limit is clamped to the
\* limit, the bank angle keeping its sign, and the step completes.
C2_Saturated ==
    /\ \A i \in 1..Len(self.Thrust) : self.Thrust[i] <= self.Vehicle.T_max
    /\ \A i \in 1..Len(self.mu) : Abs(self.mu[i]) <= self.Vehicle.mu_max

C2_Clamped ==
    GuidanceRan =>
        LET Tc == self.K_Ti * self'.xT
                  + self.K_Tp * Last(self.mass) * self'.V_err
            mu == fdiv(self.K_mu_p * self.command.v_BN_W * self'.sigma_err,
                       const_gravity)
        IN  /\ Tc > self.Vehicle.T_max => self'.Tc = self.Vehicle.T_max
            /\ mu > self.Vehicle.mu_max =>
                   Last(self'.mu) = self.Vehicle.mu_max
            /\ mu < -self.Vehicle.mu_max =>
                   Last(self'.mu) = -self.Vehicle.mu_max
            /\ IsStep

C2_SaturationInvariant == [](C2_Saturated) /\ [][C2_Clamped]_vars

\* a step has clamped the thrust command and the thrust at T_max and has
\* clamped a negative bank angle at -mu_max
C2_Witness ==
    /\ Len(self.Thrust) >= 2
    /\ self.Tc = self.Vehicle.T_max
    /\ Last(self.Thrust) = self.Vehicle.T_max
    /\ Last(self.mu) = -self.Vehicle.mu_max
    /\ Abs(fdiv(self.K_mu_p * self.command.v_BN_W * self.sigma_err,
                const_gravity)) > self.Vehicle.mu_max

\* C3 as claimed: for every index i, Lift[i] <= K_Lmax * v_BN_W[i]^2 (the
\* lift against the velocity as it stands after the same step).  Stated of
\* the runs in which every step ran the guidance loops and no thrust was
\* negative, so that a violation rests on neither C1 nor C4.
C3_LiftWithinLimitOfSameStep ==
    (/\ Len(self.Lift) = Len(self.v_BN_W)
     /\ \A i \in 1..Len(self.Thrust) : self.Thrust[i] >= 0) =>
        \A i \in 1..Len(self.Lift) :
            self.Lift[i] <= self.Vehicle.K_Lmax * self.v_BN_W[i] ^ 2

\* C3 as amended: every Lift entry a step appends is <= K_Lmax * v^2 for the
\* velocity v that was the latest entry when the step began; the initial entry
\* is within the limit of the initial velocity.
C3_LiftWithinLimitOfPreviousState ==
    /\ [](self.Lift[1] <= self.Vehicle.K_Lmax * self.v_BN_W[1] ^ 2)
    /\ [][Len(self'.Lift) # Len(self.Lift) =>
            /\ Len(self'.Lift) = Len(self.Lift) + 1
            /\ Last(self'.Lift)
                   <= self.Vehicle.K_Lmax * Last(self.v_BN_W) ^ 2
            /\ SubSeq(self'.Lift, 1, Len(self.Lift)) = self.Lift]_vars

\* the last step clamped the lift at the limit of the velocity it began with,
\* and the velocity it produced has a lower limit
C3_Witness ==
    LET n == Len(self.Lift)
    IN  /\ n >= 2
        /\ n = Len(self.v_BN_W)
        /\ \A i \in 1..Len(self.Thrust) : self.Thrust[i] >= 0
        /\ self.Lift[n] = self.Vehicle.K_Lmax * self.v_BN_W[n - 1] ^ 2
        /\ self.Lift[n] > self.Vehicle.K_Lmax * self.v_BN_W[n] ^ 2

\* C4: every entry of the Thrust history and of the Lift history is >= 0.
C4_ThrustAndLiftNonNegative ==
    /\ \A i \in 1..Len(self.Thrust) : self.Thrust[i] >= 0
    /\ \A i \in 1..Len(self.Lift) : self.Lift[i] >= 0

\* C5: the mass history changes only by a step appending the fuel-burn update
\* dmass/dt = -Kf*Thrust, and for a step with dt > 0 and Kf >= 0 after which
\* every Thrust entry is >= 0 the new mass is <= the previous mass.
C5_MassNonIncreasing ==
    [][self'.mass # self.mass =>
        LET dt == Last(self'.time) - Last(self.time)
        IN  /\ IsStep
            /\ Len(self'.mass) = Len(self.mass) + 1
            /\ SubSeq(self'.mass, 1, Len(self.mass)) = self.mass
            /\ Last(self'.mass) - Last(self.mass)
                   = fdiv(-(self.Vehicle.Kf * Last(self'.Thrust) * dt), 100)
            /\ (/\ dt > 0
                /\ self.Vehicle.Kf >= 0
                /\ \A i \in 1..Len(self'.Thrust) : self'.Thrust[i] >= 0)
               => Last(self'.mass) <= Last(self.mass)]_vars

\* a step with dt > 0 and no negative thrust so far has burnt fuel
C5_Witness ==
    LET n == Len(self.mass)
    IN  /\ n >= 2
        /\ self.time[n] > self.time[n - 1]
        /\ \A i \in 1..Len(self.Thrust) : self.Thrust[i] >= 0
        /\ self.mass[n] < self.mass[n - 1]

\* C6: on an engine on which setCommandTrajectory has never been called,
\* stepTime appends nothing to any history, leaves the integral accumulators
\* unchanged and does not advance the clock.
C6_IdleStepIsNoOp ==
    ~commandSet =>
        /\ \A i \in 1..Len(TimeIndexed(self)) : Len(TimeIndexed(self)[i]) = 1
        /\ Len(self.command.v_BN_W_history) = 1
        /\ self.time = <<InitialTime>>
        /\ self.xT = 0
        /\ self.xL = 0

\* C7: when the guidance loops run in a step, the errors they use are the
\* current command against the entries of v_BN_W, gamma and sigma that were
\* the latest before the step, not the entries the step appends.
C7_ErrorsFromCommittedState ==
    [][GuidanceRan =>
        LET dt == Last(self'.time) - Last(self.time)
        IN  /\ self'.V_err = self.command.v_BN_W - Last(self.v_BN_W)
            /\ self'.sigma_err = self.command.sigma - Last(self.sigma)
            /\ self'.hdot_err
                   = fdiv(self.command.v_BN_W
                              * (Sin(self.command.gamma)
                                     - Sin(Last(self.gamma))), 1000)
            /\ self'.xT - self.xT = Last(self.mass) * self'.V_err * dt
            /\ self'.xL - self.xL = Last(self.mass) * self'.hdot_err * dt
            /\ Abs(Last(self'.mu)) < self.Vehicle.mu_max =>
                   Last(self'.mu)
                       = fdiv(self.K_mu_p * self.command.v_BN_W
                                  * self'.sigma_err, const_gravity)]_vars

\* the guidance loops have run in a step that changed velocity, flight path
\* angle and heading, and the stored errors are those against the old entries
C7_Witness ==
    LET n == Len(self.v_BN_W)
    IN  /\ n >= 2
        /\ Len(self.Thrust) = n
        /\ ~NoCommand(self)
        /\ self.command.v_BN_W = Last(self.command.v_BN_W_history)
        /\ self.v_BN_W[n] # self.v_BN_W[n - 1]
        /\ self.gamma[n] # self.gamma[n - 1]
        /\ self.sigma[n] # self.sigma[n - 1]
        /\ self.V_err = self.command.v_BN_W - self.v_BN_W[n - 1]
        /\ self.sigma_err = self.command.sigma - self.sigma[n - 1]

\* C8: setCommandTrajectory stores as errors the commanded minus the latest
\* committed values; with the command equal to the latest v_BN_W, gamma and
\* sigma entries all three errors are exactly zero.
C8_ErrorsAgainstCurrentState ==
    [][IsSetCommand =>
        LET c == self'.command
        IN  /\ ~IsNaN(c.v_BN_W) =>
                   self'.V_err = c.v_BN_W - Last(self.v_BN_W)
            /\ ~IsNaN(c.sigma) =>
                   self'.sigma_err = c.sigma - Last(self.sigma)
            /\ ~IsNaN(c.v_BN_W) /\ ~IsNaN(c.gamma) =>
                   self'.hdot_err
                       = fdiv(c.v_BN_W * (Sin(c.gamma) - Sin(Last(self.gamma))),
                              1000)
            /\ <<c.v_BN_W, c.gamma, c.sigma>>
                   = <<Last(self.v_BN_W), Last(self.gamma), Last(self.sigma)>>
               => /\ self'.V_err = 0
                  /\ self'.hdot_err = 0
                  /\ self'.sigma_err = 0]_vars

\* after a step that left nonzero errors and moved the state, a command equal
\* to the latest state was set and the three errors are zero
C8_Witness ==
    LET n == Len(self.v_BN_W)
    IN  /\ n >= 2
        /\ self.v_BN_W[n] # self.v_BN_W[1]
        /\ self.gamma[n] # self.gamma[1]
        /\ self.command.v_BN_W = self.v_BN_W[n]
        /\ self.command.gamma = self.gamma[n]
        /\ self.command.sigma = self.sigma[n]
        /\ self.command.v_BN_W # Last(self.command.v_BN_W_history)
        /\ self.V_err = 0 /\ self.hdot_err = 0 /\ self.sigma_err = 0

\* C9: setCommandTrajectory changes only the current command (velocity,
\* flight path angle, heading, airspeed) and the three errors; the histories,
\* the command history, xT, xL, Tc, Lc and the clock are unchanged.
C9_SetCommandFrame ==
    [][IsSetCommand =>
        [self' EXCEPT !.command.v_BN_W = self.command.v_BN_W,
                      !.command.gamma = self.command.gamma,
                      !.command.sigma = self.command.sigma,
                      !.command.airspeed = self.command.airspeed,
                      !.V_err = self.V_err,
                      !.hdot_err = self.hdot_err,
                      !.sigma_err = self.sigma_err] = self]_vars

\* after two steps a new command is set and not yet recorded
C9_Witness ==
    /\ commandSet
    /\ Len(self.time) >= 3
    /\ Len(self.command.v_BN_W_history) = Len(self.time)
    /\ self.command.v_BN_W # Last(self.command.v_BN_W_history)
    /\ self.command.gamma # Last(self.command.gamma_history)
    /\ self.V_err = Sub(self.command.v_BN_W, Last(self.v_BN_W))

\* the <<velocity, flight path angle, heading>> triples of the command history
Recorded(s) ==
    { <<s.command.v_BN_W_history[i], s.command.gamma_history[i],
        s.command.sigma_history[i]>> :
      i \in 1..Len(s.command.v_BN_W_history) }

Commanded(s) == <<s.command.v_BN_W, s.command.gamma, s.command.sigma>>

\* C10 as claimed: every triple passed to setCommandTrajectory appears in the
\* history.  Only stepTime appends, and it appends the command current at the
\* call, so a command must never be replaced before it has been recorded.
C10_EveryCommandRecorded ==
    [][(/\ IsSetCommand
        /\ Commanded(self') # Commanded(self)
        /\ ~NoCommand(self)) =>
           Commanded(self) \in Recorded(self)]_vars

\* C10 as amended: each stepTime appends exactly one entry, the command
\* current at the call, to each command history, also when the command is
\* unchanged; setCommandTrajectory leaves the history as it is; entries are
\* never modified or removed.
C10_HistoryAppendOnly ==
    [][/\ IsStep =>
            /\ self'.command.v_BN_W_history
                   = Append(self.command.v_BN_W_history, self.command.v_BN_W)
            /\ self'.command.gamma_history
                   = Append(self.command.gamma_history, self.command.gamma)
            /\ self'.command.sigma_history
                   = Append(self.command.sigma_history, self.command.sigma)
            /\ self'.command.airspeed_history
                   = Append(self.command.airspeed_history,
                            self.command.airspeed)
       /\ IsSetCommand =>
            /\ self'.command.v_BN_W_history = self.command.v_BN_W_history
            /\ self'.command.gamma_history = self.command.gamma_history
            /\ self'.command.sigma_history = self.command.sigma_history
            /\ self'.command.airspeed_history
                   = self.command.airspeed_history]_vars

\* two steps under one unchanged command recorded it twice, and a command set
\* since is not in the history
C10_Witness ==
    /\ Len(self.command.v_BN_W_history) = 3
    /\ Len(self.time) = 3
    /\ <<self.command.v_BN_W_history[2], self.command.gamma_history[2]>>
           = <<self.command.v_BN_W_history[3], self.command.gamma_history[3]>>
    /\ self.command.v_BN_W_history[2] # self.command.v_BN_W_history[1]
    /\ Commanded(self) \notin Recorded(self)

\* the histories an integration's result is appended to (the integral
\* memories xT and xL are accumulators, not histories)
HistoriesOf(ode, s) ==
    CASE ode = "T_dot_ode" -> <<s.Thrust>>
      [] ode = "L_dot_ode" -> <<s.Lift>>
      [] ode = "m_dot_ode" -> <<s.mass>>
      [] ode = "eom_ode" -> <<s.v_BN_W, s.gamma, s.sigma>>
      [] ode = "ecef_ode" -> <<s.lat, s.lon, s.h>>
      [] OTHER -> <<>>

\* C11: a numerical failure reported by the integrator in any integration of
\* a step is fatal for the step: the step does not complete (the clock does
\* not advance, the command is not recorded) and nothing the failed
\* integration returned is appended to a history.
C11_FailedIntegrationIsFatal ==
    [][failed' # "none" =>
          /\ self'.time = self.time
          /\ self'.command = self.command
          /\ \A i \in DOMAIN HistoriesOf(failed', self) :
                Len(HistoriesOf(failed', self')[i])
                    = Len(HistoriesOf(failed', self)[i])]_vars

\* the step integrates the integral memories, the mass, the dynamics and the
\* kinematics with a right-hand side frozen at the entries that are the
\* latest when the integration is called: new value = old value + rate * dt
C12_Frozen ==
    LET dt == Last(self'.time) - Last(self.time)
        m == Last(self'.mass)
        v == Last(self.v_BN_W)
        g == Last(self.gamma)
        r == Re_bar + Last(self.h)
        north == fdiv(Last(self'.v_BN_W) * Cos(Last(self'.gamma))
                          * Cos(Last(self'.sigma)), 1000)
        east == fdiv(Last(self'.v_BN_W) * Cos(Last(self'.gamma))
                         * Sin(Last(self'.sigma)), 1000)
    IN  /\ GuidanceRan =>
              /\ self'.xT = self.xT
                     + fdiv(Last(self.mass) * self'.V_err * dt, 1)
              /\ self'.xL = self.xL
                     + fdiv(Last(self.mass) * self'.hdot_err * dt, 1)
        /\ m = Last(self.mass)
                 + fdiv(-1 * self.Vehicle.Kf * Last(self'.Thrust) * dt, 100)
        /\ Last(self'.v_BN_W)
               = v + fdiv(((Last(self'.Thrust) - Last(self'.drag)) * 1000
                              - const_gravity * Sin(g) * m) * dt, m * 1000)
        /\ Last(self'.gamma)
               = g + fdiv(172 * (Last(self'.Lift) * Cos(Last(self'.mu))
                                    - const_gravity * Cos(g) * m) * dt,
                          3 * v * m * 1000)
        /\ Last(self'.sigma)
               = Last(self.sigma)
                     + fdiv(172 * Last(self'.Lift) * Sin(Last(self'.mu)) * dt,
                            3 * v * Cos(g) * m)
        /\ Last(self'.lat) = Last(self.lat) + fdiv(172 * north * dt, 3 * r * 1000)
        /\ Last(self'.lon)
               = Last(self.lon) + fdiv(172 * east * dt,
                                       3 * r * Cos(Last(self.lat)))
        /\ Last(self'.h)
               = Last(self.h)
                     + fdiv(Last(self'.v_BN_W) * Sin(Last(self'.gamma)) * dt,
                            1000)

\* the thrust and lift entries a step appends are one extrapolation step of
\* their lags: old value + rate at the old value * dt, then saturated
C12_LagExtrapolated ==
    LET dt == Last(self'.time) - Last(self.time)
        T == Last(self.Thrust)
        L == Last(self.Lift)
    IN  GuidanceRan =>
          /\ Last(self'.Thrust)
                 = Saturate(T + fdiv(T_dot_ode(self.Vehicle.omega_T, T,
                                               self'.Tc) * dt, 1000),
                            self.Vehicle.T_max)
          /\ Last(self'.Lift)
                 = Saturate(L + fdiv(L_dot_ode(self.Vehicle.omega_L, L,
                                               self'.Lc) * dt, 1000),
                            L_maxOf(Last(self.v_BN_W), self.Vehicle.K_Lmax))

\* the thrust and lift entries a step appends are the solution of their lags
\* over dt, whose rate follows the integrated value: the gap to the command
\* shrinks by the factor 2 ^ (omega * dt), then the saturation
C12_LagIntegrated ==
    LET dt == Last(self'.time) - Last(self.time)
        T == Last(self.Thrust)
        L == Last(self.Lift)
        decayT == 2 ^ (self.Vehicle.omega_T * Abs(dt))
        decayL == 2 ^ (self.Vehicle.omega_L * Abs(dt))
    IN  GuidanceRan =>
          /\ Last(self'.Thrust)
                 = Saturate(self'.Tc + (IF dt >= 0
                                          THEN fdiv(T - self'.Tc, decayT)
                                          ELSE (T - self'.Tc) * decayT),
                            self.Vehicle.T_max)
          /\ Last(self'.Lift)
                 = Saturate(self'.Lc + (IF dt >= 0
                                          THEN fdiv(L - self'.Lc, decayL)
                                          ELSE (L - self'.Lc) * decayL),
                            L_maxOf(Last(self.v_BN_W), self.Vehicle.K_Lmax))

\* C12 (as stated): every quantity a step integrates, the thrust and lift
\* lags included, has a right-hand side that never reads the integration
\* variable, so its new value is old value + derivative * dt.
C12_FrozenCoefficientStep ==
    [][IsStep => C12_Frozen /\ C12_LagExtrapolated]_vars

\* C12 (amended): the integral memories xT and xL, the mass, v/gamma/sigma
\* and lat/lon/h are integrated with a right-hand side frozen at the latest
\* entries, new value = old value + derivative * dt; the thrust and lift
\* lags read the integration variable and their new entry is the solution
\* of the lag over dt, saturated.
C12_FrozenExceptLags ==
    [][IsStep => C12_Frozen /\ C12_LagIntegrated]_vars

\* a step has run the guidance loops with both lags away from their commands
\* and the integral memories, mass, speed and altitude have moved
C12_Witness ==
    LET n == Len(self.time)
    IN  /\ n >= 2
        /\ Len(self.Thrust) = n
        /\ self.Thrust[n] \notin {self.Thrust[n - 1], self.Tc}
        /\ self.Thrust[n] < self.Vehicle.T_max
        /\ self.Lift[n] \notin {self.Lift[n - 1], self.Lc}
        /\ self.xT # 0
        /\ self.mass[n] # self.mass[n - 1]
        /\ self.v_BN_W[n] # self.v_BN_W[n - 1]
        /\ self.h[n] # self.h[n - 1]
====
